---------------------------- MODULE Spec2Model ----------------------------
(***************************************************************************)
(* Plinko game: the controller of src/js/game.js (PlinkoGame), the physics *)
(* engine of src/js/physics.js (the second PhysicsEngine class, lines      *)
(* 64-292, and SpatialGrid) and Utils of src/unnamed/part_001.             *)
(*                                                                         *)
(* Numbers.  Lengths and velocities are fixed-point integers in            *)
(* thousandths of a pixel (8 px is 8000); coefficients (restitution,       *)
(* friction, air resistance, unit normals) are in thousandths; divisions   *)
(* round to the nearest thousandth.  Money and multipliers are in tenths   *)
(* (0.2x is 2, a balance of 1000 is 10000).  A JavaScript NaN is the       *)
(* value NaN below; every arithmetic operator propagates it and every      *)
(* comparison with it is false, as in the language.                        *)
(*                                                                         *)
(* Not modelled, because nothing reads them but the canvas, the DOM or     *)
(* the audio: ball.rotation, the points of ball.path (its length is        *)
(* kept), peg.hit and its 100 ms reset, recentDrops, the win notification, *)
(* sounds, the fps counter, soundEnabled and the animation-speed slider    *)
(* (animationSpeed stays at its default, 3).                               *)
(* The device is not a mobile one (Utils.isMobile() is false), so the      *)
(* engine keeps the gravity and friction it is constructed with.           *)
(***************************************************************************)
EXTENDS Integers, Sequences, FiniteSets, TLC

(***************************************************************************)
(* Bounds of the model.                                                    *)
(***************************************************************************)
MaxBalls == 2
MaxPath == 3
MaxEvents == 1

(* gameState.rows when the game starts: the row count that loadSettings     *)
(* restores from storage, one of RowChoices (16 without saved settings).    *)
InitialRows == 3

(***************************************************************************)
(* Program constants (lengths in 1/1000 px, coefficients in 1/1000).       *)
(***************************************************************************)
PEG_RADIUS == 4000
BALL_RADIUS == 8000
PEG_SPACING == 40000
SLOT_HEIGHT == 40000
CELL_SIZE == 50000
GRAVITY == 500
RESTITUTION == 700
FRICTION == 20
AIR_RESISTANCE == 998
SCALE == 10 * 100
PegStartY == 80000
PegBottomGap == 20000
DropY == 50000
DropVy == 1000
SleepSpeed == 50
PathSample == 3
SleepMargin == 100000
BoundsMargin == 100000
InitialBet == 1000
InitialBalance == 10000

(* JavaScript's NaN and undefined, as values no computation produces. *)
NaN == -999999999
Undefined == -1

(* Timestamps are counted in animation frames from the latest frame        *)
(* rendered: that frame's timestamp is LastFrame, the next one's NextFrame. *)
LastFrame == 0
NextFrame == LastFrame + 1

(***************************************************************************)
(* The environment's inputs, drawn from small sets.                        *)
(***************************************************************************)
(* The frame interval of the display in units of 1000/60 ms: deltaTime /   *)
(* (1000 / 60) of two consecutive animation frames.                        *)
TicksPerFrame == 4

(* Sizes of the canvas container (cw, ch) and of the window (iw, ih). *)
Viewports ==
    << [cw |-> 240000, ch |-> 160000, iw |-> 320000, ih |-> 200000],
       [cw |-> 480000, ch |-> 160000, iw |-> 640000, ih |-> 270000] >>

(* A container that is not laid out, as under display: none: its            *)
(* clientWidth and clientHeight are 0.                                     *)
CollapsedViewport == [cw |-> 0, ch |-> 0, iw |-> 320000, ih |-> 200000]

AllViewports == Viewports \o << CollapsedViewport >>

(* The options of the rows-count and risk-level selects. *)
RowChoices == {2, 3}
Risks == {"low", "medium", "high"}

(* Draws of << Utils.random(-5, 5), Utils.random(-0.5, 0.5) >> in dropBall   *)
(* and of Utils.random(-0.1, 0.1) in handleCollisions.                      *)
DropDraws == { << -5000, -500 >>, << 0, 0 >> }
Nudges == {-100, 99}

(***************************************************************************)
(* Arithmetic of JavaScript numbers.                                       *)
(***************************************************************************)
IsNaN(a) == a = NaN

Abs(a) == IF a < 0 THEN -a ELSE a

(* a / b rounded to the nearest integer, b > 0 *)
RoundDiv(a, b) ==
    IF a >= 0 THEN (2 * a + b) \div (2 * b)
              ELSE -((2 * (-a) + b) \div (2 * b))

Add(a, b) == IF IsNaN(a) \/ IsNaN(b) THEN NaN ELSE a + b

Sub(a, b) == IF IsNaN(a) \/ IsNaN(b) THEN NaN ELSE a - b

Mul(a, b) == IF IsNaN(a) \/ IsNaN(b) THEN NaN ELSE a * b

Lt(a, b) == ~IsNaN(a) /\ ~IsNaN(b) /\ a < b

Gt(a, b) == ~IsNaN(a) /\ ~IsNaN(b) /\ a > b

(* v * c for a coefficient c in thousandths *)
Scaled(v, c) == IF IsNaN(v) \/ IsNaN(c) THEN NaN ELSE RoundDiv(v * c, SCALE)

(* Math.sqrt of a non-negative integer, rounded down *)
RECURSIVE SqrtIter(_, _, _)
SqrtIter(n, lo, hi) ==
    IF lo >= hi THEN lo
    ELSE LET mid == (lo + hi + 1) \div 2
         IN  IF mid * mid <= n THEN SqrtIter(n, mid, hi)
                               ELSE SqrtIter(n, lo, mid - 1)

Sqrt(n) == SqrtIter(n, 0, 46340)

(***************************************************************************)
(* Utils.generateMultipliers (src/unnamed/part_001), in tenths.            *)
(***************************************************************************)
(* multiplierSets: min and max in tenths, curve doubled (1.5 is 3) *)
MultiplierSet(riskLevel) ==
    CASE riskLevel = "low"    -> [min |-> 2, max |-> 90,    curve2 |-> 3]
      [] riskLevel = "medium" -> [min |-> 3, max |-> 250,   curve2 |-> 5]
      [] riskLevel = "high"   -> [min |-> 2, max |-> 10000, curve2 |-> 8]

(* Products too large for the integers of the checker are kept as their    *)
(* digits to the base LIMB, the lowest first.                              *)
LIMB == 10000

RECURSIVE BigMul(_, _, _)
BigMul(n, m, carry) ==
    IF n = << >>
    THEN IF carry = 0 THEN << >>
         ELSE << carry % LIMB >> \o BigMul(<< >>, m, carry \div LIMB)
    ELSE LET t == Head(n) * m + carry
         IN  << t % LIMB >> \o BigMul(Tail(n), m, t \div LIMB)

RECURSIVE BigTimesPow(_, _, _)
BigTimesPow(n, m, e) ==
    IF e = 0 THEN n ELSE BigTimesPow(BigMul(n, m, 0), m, e - 1)

BigLimb(n, i) == IF i <= Len(n) THEN n[i] ELSE 0

(* 1, 0 or -1 as x is greater than, equal to or less than y in the limbs i..1 *)
RECURSIVE BigCmp(_, _, _)
BigCmp(x, y, i) ==
    IF i = 0 THEN 0
    ELSE IF BigLimb(x, i) > BigLimb(y, i) THEN 1
    ELSE IF BigLimb(x, i) < BigLimb(y, i) THEN -1
    ELSE BigCmp(x, y, i - 1)

(* a * (k / c)^(curve2 / 2) compared with b, both non-negative, decided    *)
(* exactly on the squares: a^2 * k^curve2 against b^2 * c^curve2           *)
CurveCmp(a, b, k, c, curve2) ==
    LET x == BigTimesPow(BigTimesPow(<< 1 >>, a, 2), k, curve2)
        y == BigTimesPow(BigTimesPow(<< 1 >>, b, 2), c, curve2)
    IN  BigCmp(x, y, IF Len(x) > Len(y) THEN Len(x) ELSE Len(y))

(* min + (max - min) * Math.pow(k / c, curve) compared with t20 / 20 *)
CurveAtLeast(set, k, c, t20) ==
    LET a == 2 * (set.max - set.min)
        b == t20 - 2 * set.min
    IN  IF b <= 0 THEN TRUE ELSE CurveCmp(a, b, k, c, set.curve2) >= 0

CurveAtMost(set, k, c, t20) ==
    LET a == 2 * (set.max - set.min)
        b == t20 - 2 * set.min
    IN  IF b < 0 THEN FALSE ELSE CurveCmp(a, b, k, c, set.curve2) <= 0

(* Math.round(value * 20 / step20): the largest n in lo..hi with            *)
(* value >= (n - 0.5) * step20 / 20, found by bisection.                    *)
RECURSIVE RoundTo(_, _, _, _, _, _)
RoundTo(set, k, c, step20, lo, hi) ==
    IF lo >= hi THEN lo
    ELSE LET mid == (lo + hi + 1) \div 2
         IN  IF CurveAtLeast(set, k, c, ((2 * mid - 1) * step20) \div 2)
             THEN RoundTo(set, k, c, step20, mid, hi)
             ELSE RoundTo(set, k, c, step20, lo, mid - 1)

(* the lowest band rounded by Math.round(multiplier * 10) without the      *)
(* division by 10 that follows it                                          *)
CurveMultiplierUnscaled(set, k, c) ==
    IF c = 0 THEN NaN
    ELSE IF ~CurveAtMost(set, k, c, 200) THEN 10 * RoundTo(set, k, c, 20, 10, set.max \div 10)
    ELSE IF ~CurveAtMost(set, k, c, 40) THEN 5 * RoundTo(set, k, c, 10, 4, 20)
    ELSE 10 * RoundTo(set, k, c, 2, 0, 20)

(* the distribution formula and its three rounding bands, in tenths *)
CurveMultiplier(set, k, c) ==
    IF c = 0 THEN NaN
    ELSE IF ~CurveAtMost(set, k, c, 200) THEN 10 * RoundTo(set, k, c, 20, 10, set.max \div 10)
    ELSE IF ~CurveAtMost(set, k, c, 40) THEN 5 * RoundTo(set, k, c, 10, 4, 20)
    ELSE RoundTo(set, k, c, 2, 0, 20)

(* the overrides of the high tier tested from the inside outwards *)
MultiplierAtInward(riskLevel, slots, i) ==
    LET centerIndex == slots \div 2
        high == riskLevel = "high"
        first == IF high /\ (i = 2 \/ i = slots - 3) THEN 260
                 ELSE IF high /\ (i = 1 \/ i = slots - 2) THEN 1300
                 ELSE IF high /\ (i = 0 \/ i = slots - 1) THEN 10000
                 ELSE CurveMultiplier(MultiplierSet(riskLevel),
                                      Abs(i - centerIndex), centerIndex)
    IN  IF high /\ i >= 4 /\ i <= slots - 5 /\ Abs(i - centerIndex) <= 1 THEN 2
        ELSE IF high /\ i >= 4 /\ i <= slots - 5 /\ Abs(i - centerIndex) <= 3 THEN 20
        ELSE first

(* multipliers[i] of generateMultipliers(riskLevel, slots), i from 0 *)
MultiplierAt(riskLevel, slots, i) ==
    LET centerIndex == slots \div 2
        high == riskLevel = "high"
        first == IF high /\ (i = 0 \/ i = slots - 1) THEN 10000
                 ELSE IF high /\ (i = 1 \/ i = slots - 2) THEN 1300
                 ELSE IF high /\ (i = 2 \/ i = slots - 3) THEN 260
                 ELSE CurveMultiplier(MultiplierSet(riskLevel),
                                      Abs(i - centerIndex), centerIndex)
    IN  IF high /\ i >= 4 /\ i <= slots - 5 /\ Abs(i - centerIndex) <= 1 THEN 2
        ELSE IF high /\ i >= 4 /\ i <= slots - 5 /\ Abs(i - centerIndex) <= 3 THEN 20
        ELSE first

generateMultipliers(riskLevel, slots) ==
    [j \in 1..slots |-> MultiplierAt(riskLevel, slots, j - 1)]

(* the values of the else branch of the loop: the distribution formula and *)
(* its rounding at every index, no override applied                       *)
curveTable(riskLevel, slots) ==
    [j \in 1..slots |->
        CurveMultiplier(MultiplierSet(riskLevel),
                        Abs(j - 1 - slots \div 2), slots \div 2)]

(***************************************************************************)
(* Board layout: PlinkoGame.generatePegs and generateSlots (js/game.js).   *)
(***************************************************************************)
(* the pegs of one row, left to right *)
PegRow(width, height, rows, row) ==
    LET endY == height - SLOT_HEIGHT - PegBottomGap
        availableHeight == endY - PegStartY
        rowHeight == RoundDiv(availableHeight, rows - 1)
        pegsInRow == row + 1
        totalWidth == pegsInRow * PEG_SPACING
        startX == (width - totalWidth) \div 2
                  + (IF row % 2 = 0 THEN PEG_SPACING \div 2 ELSE 0)
    IN  [col \in 1..pegsInRow |->
            [x |-> startX + (col - 1) * PEG_SPACING,
             y |-> PegStartY + row * rowHeight,
             radius |-> PEG_RADIUS]]

RECURSIVE PegRows(_, _, _, _)
PegRows(width, height, rows, row) ==
    IF row >= rows THEN << >>
    ELSE PegRow(width, height, rows, row) \o PegRows(width, height, rows, row + 1)

generatePegs(width, height, rows) == PegRows(width, height, rows, 0)

(* the board of the earlier draft of the game: sixteen slots whatever the   *)
(* row count                                                               *)
generateSlotsFixed(width, height, count) ==
    LET slotWidth == RoundDiv(width, 4 * 4)
    IN  [j \in 1..(4 * 4) |->
            [x |-> (j - 1) * slotWidth,
             y |-> height - SLOT_HEIGHT,
             width |-> slotWidth,
             height |-> SLOT_HEIGHT]]

generateSlots(width, height, count) ==
    LET slotWidth == RoundDiv(width, count)
    IN  [j \in 1..count |->
            [x |-> (j - 1) * slotWidth,
             y |-> height - SLOT_HEIGHT,
             width |-> slotWidth,
             height |-> SLOT_HEIGHT]]

(***************************************************************************)
(* SpatialGrid (js/physics.js).  The grid maps a cell <<cellX, cellY>> to  *)
(* the sequence of pegs added to it; absent cells map to << >>.            *)
(***************************************************************************)
getCellKey(x, y) == << x \div CELL_SIZE, y \div CELL_SIZE >>

GridCell(grid, key) == IF key \in DOMAIN grid THEN grid[key] ELSE << >>

addObject(grid, object) ==
    LET key == getCellKey(object.x, object.y)
    IN  [k \in (DOMAIN grid) \cup {key} |->
            IF k = key THEN Append(GridCell(grid, key), object) ELSE grid[k]]

RECURSIVE AddAll(_, _, _)
AddAll(grid, pegs, n) ==
    IF n > Len(pegs) THEN grid ELSE AddAll(addObject(grid, pegs[n]), pegs, n + 1)

(* a clear() that keeps the cells of the grid *)
clearNothing(grid) == grid

(* clear(): this.grid = {} *)
clear(grid) == [k \in {} |-> << >>]

(* spatialGrid.clear() followed by addObject of every peg, as in init *)
BuildGrid(pegs) == AddAll([k \in {} |-> << >>], pegs, 1)

(* Math.floor in the place of Math.ceil *)
CellRadiusFloor(radius) == radius \div CELL_SIZE

(* Math.ceil(radius / cellSize) *)
CellRadius(radius) == (radius + CELL_SIZE - 1) \div CELL_SIZE

RECURSIVE NearCells(_, _, _, _, _, _)
NearCells(grid, cx, cy, r, i, j) ==
    IF i > r THEN << >>
    ELSE IF j > r THEN NearCells(grid, cx, cy, r, i + 1, -r)
    ELSE GridCell(grid, << cx + i, cy + j >>) \o NearCells(grid, cx, cy, r, i, j + 1)

getObjectsNear(grid, x, y, radius) ==
    IF IsNaN(x) \/ IsNaN(y) THEN << >>
    ELSE LET r == CellRadius(radius)
         IN  NearCells(grid, x \div CELL_SIZE, y \div CELL_SIZE, r, -r, -r)

(***************************************************************************)
(* The state.                                                              *)
(***************************************************************************)
VARIABLES
    viewport,       \* index in Viewports: the container's and the window's size now
    resizeTimer,    \* TRUE while the debounced resize callback is scheduled
    canvas,         \* canvas.width, canvas.height
    rows, risk,     \* gameState.rows, gameState.risk
    multipliers,    \* gameState.multipliers
    pegs, slots,    \* gameState.pegs, gameState.slots
    balls,          \* gameState.balls: the ball objects, in the order of their creation
    bet, balance,   \* gameState.bet, gameState.balance
    physPegs, physSlots, \* physics.pegs, physics.slots
    grid,           \* physics.spatialGrid.grid
    physBalls,      \* physics.balls: indices in balls of the objects in the array
    aliased,        \* TRUE while physics.balls is the very array gameState.balls
    lastFrameTime,  \* physics.lastFrameTime: LastFrame or Undefined
    frameCounter,   \* physics.frameCounter % 3, all that updateBall reads of it
    rafChains,      \* number of gameLoop callbacks requested for the next frame
    timers,         \* balls whose 10 s timer of dropBall is pending, oldest first
    dropDisabled,   \* the drop button is disabled (its 2 s timer is pending)
    credits,        \* credits[b]: how often handleWin has added to the balance for ball b
    events,         \* number of resize, risk and row-count events so far
    call            \* a call of one function on its own: its arguments and its result,
                    \* or the state of the game of scripts/game-logic.js

vars == << viewport, resizeTimer, canvas, rows, risk, multipliers, pegs, slots,
           balls, bet, balance, physPegs, physSlots, grid, physBalls, aliased,
           lastFrameTime, frameCounter, rafChains, timers, dropDisabled,
           credits, events, call >>

(* the state of the game and of its physics engine *)
gameVars == << viewport, resizeTimer, canvas, rows, risk, multipliers, pegs,
               slots, balls, bet, balance, physPegs, physSlots, grid, physBalls,
               aliased, lastFrameTime, frameCounter, rafChains, timers,
               dropDisabled, credits, events >>

innerWidth == AllViewports[viewport].iw
innerHeight == AllViewports[viewport].ih

(***************************************************************************)
(* PhysicsEngine (js/physics.js, lines 64-292).                            *)
(***************************************************************************)
createBall(x, y) ==
    [x |-> x, y |-> y, vx |-> 0, vy |-> 0, sleeping |-> FALSE,
     pathLen |-> 0, inSlot |-> FALSE, slotIndex |-> -1]

isOutOfBounds(ball) == Gt(ball.y, innerHeight + BoundsMargin)

(* distance < minDistance of handleCollisions *)
Overlaps(ball, peg) ==
    LET dx == ball.x - peg.x
        dy == ball.y - peg.y
        minDistance == BALL_RADIUS + peg.radius
    IN  /\ ~IsNaN(ball.x) /\ ~IsNaN(ball.y)
        /\ Abs(dx) < minDistance /\ Abs(dy) < minDistance
        /\ dx * dx + dy * dy < minDistance * minDistance

(* the body of "if (distance < minDistance)" with the random draw nudge *)
Bounce(ball, peg, nudge) ==
    LET dx == ball.x - peg.x
        dy == ball.y - peg.y
        distance == Sqrt(dx * dx + dy * dy)
        minDistance == BALL_RADIUS + peg.radius
        nx == IF distance = 0 THEN NaN ELSE RoundDiv(dx * SCALE, distance)
        ny == IF distance = 0 THEN NaN ELSE RoundDiv(dy * SCALE, distance)
        relativeVelocity == Add(Scaled(ball.vx, nx), Scaled(ball.vy, ny))
        impulse == Scaled(Mul(2, relativeVelocity), RESTITUTION)
        vx1 == Sub(ball.vx, Scaled(impulse, nx))
        vy1 == Sub(ball.vy, Scaled(impulse, ny))
        tangentX == Sub(0, ny)
        tangentY == nx
        tangentVelocity == Add(Scaled(vx1, tangentX), Scaled(vy1, tangentY))
        vx2 == Sub(vx1, Scaled(Scaled(tangentVelocity, FRICTION), tangentX))
        vy2 == Sub(vy1, Scaled(Scaled(tangentVelocity, FRICTION), tangentY))
        overlap == minDistance - distance
    IN  [ball EXCEPT !.x = Add(ball.x, Scaled(overlap, nx)),
                     !.y = Add(ball.y, Scaled(overlap, ny)),
                     !.vx = Add(vx2, nudge),
                     !.vy = vy2]

(* the loop over nearbyPegs: every ball the random draws can produce *)
RECURSIVE HitPegs(_, _, _)
HitPegs(ballSet, nearbyPegs, n) ==
    IF n > Len(nearbyPegs) THEN ballSet
    ELSE HitPegs(UNION { IF Overlaps(b, nearbyPegs[n])
                         THEN { Bounce(b, nearbyPegs[n], nudge) : nudge \in Nudges }
                         ELSE { b } : b \in ballSet },
                 nearbyPegs, n + 1)

(* "Handle collisions with walls" *)
HitWalls(ball) ==
    IF Lt(Sub(ball.x, BALL_RADIUS), 0)
    THEN [ball EXCEPT !.x = BALL_RADIUS, !.vx = Scaled(Sub(0, ball.vx), RESTITUTION)]
    ELSE IF Gt(Add(ball.x, BALL_RADIUS), innerWidth)
    THEN [ball EXCEPT !.x = innerWidth - BALL_RADIUS,
                      !.vx = Scaled(Sub(0, ball.vx), RESTITUTION)]
    ELSE ball

handleCollisions(ball) ==
    { HitWalls(b) :
        b \in HitPegs({ball}, getObjectsNear(grid, ball.x, ball.y, BALL_RADIUS * 3), 1) }

(* the test of checkSlotEntry for slot i (from 0) *)
InSlotSpan(ball, slot) ==
    Gt(ball.x, slot.x) /\ Lt(ball.x, slot.x + slot.width) /\ Gt(ball.y, slot.y)

RECURSIVE SlotEntry(_, _)
SlotEntry(ball, i) ==
    IF i >= Len(physSlots) THEN ball
    ELSE IF InSlotSpan(ball, physSlots[i + 1])
    THEN [ball EXCEPT !.inSlot = TRUE, !.slotIndex = i, !.vx = 0, !.vy = 0,
                      !.x = physSlots[i + 1].x + physSlots[i + 1].width \div 2]
    ELSE SlotEntry(ball, i + 1)

checkSlotEntry(ball) == SlotEntry(ball, 0)

(* "Optimize by putting slow balls to sleep" *)
Sleep(ball) ==
    IF /\ ~IsNaN(ball.vx) /\ Abs(ball.vx) < SleepSpeed
       /\ ~IsNaN(ball.vy) /\ Abs(ball.vy) < SleepSpeed
       /\ Gt(ball.y, innerHeight - SleepMargin)
    THEN [ball EXCEPT !.sleeping = TRUE]
    ELSE ball

RecordPath(ball, counter) ==
    IF counter % PathSample = 0 THEN [ball EXCEPT !.pathLen = @ + 1] ELSE ball

(* gravity, velocity and air resistance of updateBall *)
Integrate(ball, timeScale) ==
    LET vy1 == Add(ball.vy, Mul(GRAVITY, timeScale))
    IN  [ball EXCEPT !.x = Add(ball.x, Mul(ball.vx, timeScale)),
                     !.y = Add(ball.y, Mul(vy1, timeScale)),
                     !.vx = Scaled(ball.vx, AIR_RESISTANCE),
                     !.vy = Scaled(vy1, AIR_RESISTANCE)]

(* updateBall without the early return for a ball in a slot *)
updateBallLanded(ball, timeScale, counter) ==
    IF isOutOfBounds(ball) \/ ball.sleeping THEN { ball }
    ELSE { Sleep(checkSlotEntry(RecordPath(b, counter))) :
             b \in handleCollisions(Integrate(ball, timeScale)) }

(* updateBall(ball, deltaTime) with timeScale = deltaTime / (1000 / 60):    *)
(* every ball the random draws can produce                                  *)
updateBall(ball, timeScale, counter) ==
    IF isOutOfBounds(ball) \/ ball.sleeping \/ ball.inSlot THEN { ball }
    ELSE { Sleep(checkSlotEntry(RecordPath(b, counter))) :
             b \in handleCollisions(Integrate(ball, timeScale)) }

(* the loop "for (const ball of this.balls)" of update: every outcome *)
RECURSIVE UpdateBalls(_, _, _, _, _)
UpdateBalls(ballsSet, list, n, timeScale, counter) ==
    IF n > Len(list) THEN ballsSet
    ELSE UpdateBalls(UNION { { [bs EXCEPT ![list[n]] = b] :
                                 b \in updateBall(bs[list[n]], timeScale, counter) } :
                             bs \in ballsSet },
                     list, n + 1, timeScale, counter)

(* "Remove balls that are sleeping or out of bounds" *)
Retained(bs, list) ==
    SelectSeq(list, LAMBDA i : ~(bs[i].sleeping \/ isOutOfBounds(bs[i])))

(* update(timestamp) on the engine state e = [balls, list, last, counter]; *)
(* timestamp is a frame number or Undefined                                *)
update(e, timestamp) ==
    LET deltaTime == IF timestamp = Undefined \/ e.last = Undefined THEN NaN
                     ELSE timestamp - e.last
        timeScale == Mul(deltaTime, TicksPerFrame)
        counter == (e.counter + 1) % PathSample
    IN  { [balls |-> bs, list |-> Retained(bs, e.list), last |-> timestamp,
           counter |-> counter] :
            bs \in UpdateBalls({e.balls}, e.list, 1, timeScale, counter) }

(* the gameLoop callbacks of one animation frame, all with its timestamp *)
RECURSIVE RunLoops(_, _, _)
RunLoops(engines, n, timestamp) ==
    IF n = 0 THEN engines
    ELSE RunLoops(UNION { update(e, timestamp) : e \in engines }, n - 1, timestamp)

Engine == [balls |-> balls, list |-> physBalls, last |-> lastFrameTime,
           counter |-> frameCounter]

AllBalls(bs) == [i \in 1..Len(bs) |-> i]

(* bound of the model: no ball that update would advance has MaxPath points *)
PathRoom(list) ==
    \A n \in 1..Len(list) :
        LET ball == balls[list[n]]
        IN  isOutOfBounds(ball) \/ ball.sleeping \/ ball.inSlot
            \/ ball.pathLen < MaxPath

(***************************************************************************)
(* PlinkoGame (js/game.js).                                                *)
(***************************************************************************)
(* handleWin(ball): the new balance *)
WinBalance(ball) ==
    LET multiplier == IF ball.slotIndex >= 0 /\ ball.slotIndex < Len(multipliers)
                      THEN multipliers[ball.slotIndex + 1] ELSE NaN
        winAmount == IF IsNaN(multiplier) \/ IsNaN(bet) THEN NaN
                     ELSE RoundDiv(bet * multiplier, 10)
    IN  Add(balance, winAmount)

(* Math.round in place of Math.floor *)
RandomSlotsRounded == 0..Len(slots)

(* Math.floor(Utils.random(0, slots.length)) *)
RandomSlots == IF Len(slots) = 0 THEN {0} ELSE 0..(Len(slots) - 1)

Constructed ==
    /\ viewport \in 1..Len(Viewports)
    /\ resizeTimer = FALSE
    /\ canvas = [width |-> Viewports[viewport].cw, height |-> Viewports[viewport].ch]
    /\ rows = InitialRows
    /\ risk = "high"
    /\ multipliers = generateMultipliers(risk, rows + 1)
    /\ pegs = generatePegs(canvas.width, canvas.height, rows)
    /\ slots = generateSlots(canvas.width, canvas.height, rows + 1)
    /\ balls = << >>
    /\ bet = InitialBet
    /\ balance = InitialBalance
    /\ physPegs = pegs
    /\ physSlots = slots
    /\ grid = BuildGrid(pegs)
    /\ physBalls = << >>
    /\ aliased = FALSE
    /\ lastFrameTime = Undefined
    /\ frameCounter = 1
    /\ rafChains = 1
    /\ timers = << >>
    /\ dropDisabled = FALSE
    /\ credits = << >>
    /\ events = 0

Init == Constructed /\ call = << >>

(* dropBall() without its balance test *)
DropBallUnchecked ==
    /\ ~dropDisabled
    /\ Len(balls) < MaxBalls
    /\ \E draw \in DropDraws :
         LET ball == [createBall(canvas.width \div 2 + draw[1], DropY)
                        EXCEPT !.vx = draw[2], !.vy = DropVy]
             id == Len(balls) + 1
         IN  /\ balance' = Sub(balance, bet)
             /\ dropDisabled' = TRUE
             /\ balls' = Append(balls, ball)
             /\ physBalls' = IF aliased THEN Append(physBalls, id) ELSE physBalls
             /\ timers' = Append(timers, id)
             /\ credits' = Append(credits, 0)
             /\ UNCHANGED << call, viewport, resizeTimer, canvas, rows, risk,
                             multipliers, pegs, slots, bet, physPegs, physSlots,
                             grid, aliased, lastFrameTime, frameCounter,
                             rafChains, events >>

(* click on the drop button: dropBall() *)
DropBall ==
    /\ ~dropDisabled
    /\ Len(balls) < MaxBalls
    /\ IF Lt(balance, bet)
       THEN UNCHANGED vars
       ELSE \E draw \in DropDraws :
              LET ball == [createBall(canvas.width \div 2 + draw[1], DropY)
                             EXCEPT !.vx = draw[2], !.vy = DropVy]
                  id == Len(balls) + 1
              IN  /\ balance' = Sub(balance, bet)
                  /\ dropDisabled' = TRUE
                  /\ balls' = Append(balls, ball)
                  /\ physBalls' = IF aliased THEN Append(physBalls, id) ELSE physBalls
                  /\ timers' = Append(timers, id)
                  /\ credits' = Append(credits, 0)
                  /\ UNCHANGED << call, viewport, resizeTimer, canvas, rows, risk,
                                  multipliers, pegs, slots, bet, physPegs, physSlots,
                                  grid, aliased, lastFrameTime, frameCounter,
                                  rafChains, events >>

(* the 2 s timer of dropBall *)
EnableDrop ==
    /\ dropDisabled
    /\ dropDisabled' = FALSE
    /\ UNCHANGED << call, viewport, resizeTimer, canvas, rows, risk, multipliers, pegs,
                    slots, balls, bet, balance, physPegs, physSlots, grid, physBalls,
                    aliased, lastFrameTime, frameCounter, rafChains, timers,
                    credits, events >>

(* a timer callback that leaves the ball as physics left it *)
TimedOutIdle(ball, index) == ball

(* the 10 s timer's "if (!ball.inSlot) { ... }" with the index it draws *)
TimedOut(ball, index) ==
    IF ~ball.inSlot THEN [ball EXCEPT !.inSlot = TRUE, !.slotIndex = index]
    ELSE ball

(* handleWin called a second time for the same ball *)
handleWinAgain(ball, id) ==
    IF ~ball.inSlot THEN [balance |-> balance, credits |-> credits]
    ELSE [balance |-> WinBalance(ball),
          credits |-> [credits EXCEPT ![id] = @ + 2]]

(* handleWin(ball) for the ball id: the balance and the credits after it *)
handleWin(ball, id) ==
    IF ~ball.inSlot THEN [balance |-> balance, credits |-> credits]
    ELSE [balance |-> WinBalance(ball),
          credits |-> [credits EXCEPT ![id] = @ + 1]]

(* the 10 s timer of dropBall, for the oldest ball that has one pending *)
DropTimeout ==
    /\ timers # << >>
    /\ LET id == Head(timers)
       IN  /\ ~(dropDisabled /\ id = Len(balls))
           /\ \E index \in RandomSlots :
                LET ball == TimedOut(balls[id], index)
                    win == handleWin(ball, id)
                IN  /\ balls' = [balls EXCEPT ![id] = ball]
                    /\ balance' = win.balance
                    /\ credits' = win.credits
    /\ timers' = Tail(timers)
    /\ UNCHANGED << call, viewport, resizeTimer, canvas, rows, risk, multipliers, pegs,
                    slots, bet, physPegs, physSlots, grid, physBalls, aliased,
                    lastFrameTime, frameCounter, rafChains, dropDisabled, events >>

(* one animation frame: every requested gameLoop runs and requests the next *)
Frame ==
    /\ PathRoom(physBalls)
    /\ \E e \in RunLoops({Engine}, rafChains, NextFrame) :
         /\ balls' = e.balls
         /\ physBalls' = e.list
         /\ lastFrameTime' = LastFrame
         /\ frameCounter' = e.counter
    /\ aliased' = FALSE
    /\ UNCHANGED << call, viewport, resizeTimer, canvas, rows, risk, multipliers, pegs,
                    slots, bet, balance, physPegs, physSlots, grid, rafChains,
                    timers, dropDisabled, credits, events >>

(* the window is resized: Utils.debounce (re)schedules the resize callback *)
WindowResize(v) ==
    /\ events < MaxEvents
    /\ v # viewport
    /\ viewport' = v
    /\ resizeTimer' = TRUE
    /\ events' = events + 1
    /\ UNCHANGED << call, canvas, rows, risk, multipliers, pegs, slots, balls, bet,
                    balance, physPegs, physSlots, grid, physBalls, aliased,
                    lastFrameTime, frameCounter, rafChains, timers,
                    dropDisabled, credits >>

(* the debounced resize callback *)
ResizeHandler ==
    /\ resizeTimer
    /\ resizeTimer' = FALSE
    /\ canvas' = [width |-> AllViewports[viewport].cw,
                  height |-> AllViewports[viewport].ch]
    /\ pegs' = generatePegs(canvas'.width, canvas'.height, rows)
    /\ slots' = generateSlots(canvas'.width, canvas'.height, rows + 1)
    /\ physPegs' = pegs'
    /\ physSlots' = slots'
    /\ grid' = AddAll(clear(grid), pegs', 1)
    /\ physBalls' = AllBalls(balls)
    /\ aliased' = TRUE
    /\ UNCHANGED << call, viewport, rows, risk, multipliers, balls, bet, balance,
                    lastFrameTime, frameCounter, rafChains, timers,
                    dropDisabled, credits, events >>

(* change of the risk-level select *)
RiskChange(r) ==
    /\ events < MaxEvents
    /\ r # risk
    /\ risk' = r
    /\ multipliers' = generateMultipliers(r, rows + 1)
    /\ events' = events + 1
    /\ UNCHANGED << call, viewport, resizeTimer, canvas, rows, pegs, slots, balls, bet,
                    balance, physPegs, physSlots, grid, physBalls, aliased,
                    lastFrameTime, frameCounter, rafChains, timers,
                    dropDisabled, credits >>

(* change of the rows-count select: initGame(), whose gameLoop() call runs  *)
(* update(undefined) at once and requests one more animation frame          *)
RowsChange(n) ==
    /\ events < MaxEvents
    /\ PathRoom(AllBalls(balls))
    /\ n # rows
    /\ rows' = n
    /\ events' = events + 1
    /\ canvas' = [width |-> AllViewports[viewport].cw,
                  height |-> AllViewports[viewport].ch]
    /\ pegs' = generatePegs(canvas'.width, canvas'.height, n)
    /\ slots' = generateSlots(canvas'.width, canvas'.height, n + 1)
    /\ multipliers' = generateMultipliers(risk, n + 1)
    /\ physPegs' = pegs'
    /\ physSlots' = slots'
    /\ grid' = AddAll(clear(grid), pegs', 1)
    /\ \E e \in update([Engine EXCEPT !.list = AllBalls(balls)], Undefined) :
         /\ balls' = e.balls
         /\ physBalls' = e.list
         /\ lastFrameTime' = e.last
         /\ frameCounter' = e.counter
    /\ aliased' = FALSE
    /\ rafChains' = rafChains + 1
    /\ UNCHANGED << call, viewport, resizeTimer, risk, bet, balance, timers,
                    dropDisabled, credits >>

(* Values parseFloat reads from the bet-amount input *)
BetInputs == {NaN, -500, 0, 500, 20000}

(* Math.min(a, b) *)
Min(a, b) == IF IsNaN(a) \/ IsNaN(b) THEN NaN ELSE IF a < b THEN a ELSE b

(* change of the bet-amount input to a text that parseFloat reads as value *)
BetChange(value) ==
    /\ bet' = IF IsNaN(value) \/ value <= 0 THEN bet ELSE Min(value, balance)
    /\ UNCHANGED << call, viewport, resizeTimer, canvas, rows, risk, multipliers, pegs,
                    slots, balls, balance, physPegs, physSlots, grid, physBalls,
                    aliased, lastFrameTime, frameCounter, rafChains, timers,
                    dropDisabled, credits, events >>

Next ==
    \/ DropBall
    \/ EnableDrop
    \/ DropTimeout
    \/ Frame
    \/ \E v \in 1..Len(Viewports) : WindowResize(v)
    \/ ResizeHandler
    \/ \E r \in Risks : RiskChange(r)
    \/ \E n \in RowChoices : RowsChange(n)

Spec == Init /\ [][Next]_vars

(* The game with a ball in flight over a board that has been laid out anew: *)
(* after the first animation frame a ball was dropped in the viewport u,    *)
(* then the window was resized to another viewport and the debounced resize *)
(* callback has run.  events counts the events from here on.                *)
FlightInit ==
    \E u \in 1..Len(Viewports) : \E draw \in DropDraws :
        /\ viewport \in 1..Len(Viewports)
        /\ viewport # u
        /\ resizeTimer = FALSE
        /\ canvas = [width |-> Viewports[viewport].cw, height |-> Viewports[viewport].ch]
        /\ rows = InitialRows
        /\ risk = "high"
        /\ multipliers = generateMultipliers(risk, rows + 1)
        /\ pegs = generatePegs(canvas.width, canvas.height, rows)
        /\ slots = generateSlots(canvas.width, canvas.height, rows + 1)
        /\ balls = << [createBall(Viewports[u].cw \div 2 + draw[1], DropY)
                         EXCEPT !.vx = draw[2], !.vy = DropVy] >>
        /\ bet = InitialBet
        /\ balance = InitialBalance - InitialBet
        /\ physPegs = pegs
        /\ physSlots = slots
        /\ grid = BuildGrid(pegs)
        /\ physBalls = << 1 >>
        /\ aliased = TRUE
        /\ lastFrameTime = LastFrame
        /\ frameCounter = 2
        /\ rafChains = 1
        /\ timers = << 1 >>
        /\ dropDisabled = TRUE
        /\ credits = << 0 >>
        /\ events = 0
        /\ call = << >>

(* the game from there on *)
FlightSpec == FlightInit /\ [][Next]_vars

WagerNext ==
    \/ DropBall
    \/ EnableDrop
    \/ DropTimeout
    \/ Frame
    \/ \E value \in BetInputs : BetChange(value)

(* the drops, payouts and frames of the game with its bet-amount input *)
WagerSpec == Init /\ [][WagerNext]_vars

(* the window is resized while the canvas container is not laid out *)
Collapse == WindowResize(Len(AllViewports))

ConfigNext == Next \/ Collapse

(* the game with every resize the browser can deliver *)
ConfigSpec == Init /\ [][ConfigNext]_vars

(***************************************************************************)
(* Functions on their own: a specification draws the arguments of one call *)
(* in its initial state and its action makes the call.                     *)
(***************************************************************************)
(* Positions of a ball relative to a peg, and its velocities. *)
PegOffsets == {-9000, 0, 5000}
BallVelocities == { << 0, 3000 >>, << -500, 3000 >> }

(* a ball on or near a peg of the board, as updateBall has moved it *)
BallsNearPegs ==
    { [createBall(pegs[n].x + dx, pegs[n].y + dy) EXCEPT !.vx = v[1], !.vy = v[2]] :
        n \in 1..Len(pegs), dx \in PegOffsets, dy \in PegOffsets,
        v \in BallVelocities }

(* Positions of a ball relative to the left and the right edge of the canvas *)
WallOffsets == {-3000, 1000, 20000}

(* a ball near an edge of the canvas, below the pegs *)
BallsNearWalls ==
    { [createBall(x, canvas.height - SLOT_HEIGHT - PegBottomGap \div 2)
         EXCEPT !.vx = vx, !.vy = DropVy] :
        x \in { dx : dx \in WallOffsets } \cup { canvas.width - dx : dx \in WallOffsets },
        vx \in {-2000, 2000} }

CollisionInit ==
    /\ Constructed
    /\ call \in { [from |-> b, ball |-> b, done |-> FALSE] :
                    b \in BallsNearPegs \cup BallsNearWalls }

(* this.handleCollisions(ball) *)
Collide ==
    /\ ~call.done
    /\ \E b \in handleCollisions(call.ball) :
         call' = [call EXCEPT !.ball = b, !.done = TRUE]
    /\ UNCHANGED gameVars

CollisionSpec == CollisionInit /\ [][Collide]_vars

(* Coordinates of pegs and of query points: on both sides of the cell      *)
(* boundaries at -CELL_SIZE, 0 and CELL_SIZE.                              *)
MaxGridPegs == 2
GridXs == {-CELL_SIZE - 1, -CELL_SIZE, -1, 0, CELL_SIZE}
GridYs == {-1, 0, CELL_SIZE}
GridRadii == {0, 1, CELL_SIZE, CELL_SIZE + 1, 2 * CELL_SIZE + 1}
GridPegs == { [x |-> x, y |-> y, radius |-> PEG_RADIUS] : x \in GridXs, y \in GridYs }
GridPegLists == UNION { [1..n -> GridPegs] : n \in 1..MaxGridPegs }

GridInit ==
    /\ Constructed
    /\ call \in { [pegs |-> ps, x |-> x, y |-> y, radius |-> r,
                    near |-> << >>, done |-> FALSE] :
                    ps \in GridPegLists, x \in GridXs, y \in GridYs, r \in GridRadii }

(* addObject of every peg, then getObjectsNear(x, y, radius) *)
QueryGrid ==
    /\ ~call.done
    /\ call' = [call EXCEPT
                  !.near = getObjectsNear(BuildGrid(call.pegs), call.x, call.y,
                                          call.radius),
                  !.done = TRUE]
    /\ UNCHANGED gameVars

GridSpec == GridInit /\ [][QueryGrid]_vars

(* Utils.generateMultipliers(riskLevel, slots) for 1..MaxSlots slots *)
MaxSlots == 17

TableInit ==
    /\ Constructed
    /\ call \in { [riskLevel |-> r, slots |-> n, table |-> << >>,
                    curve |-> << >>, done |-> FALSE] :
                    r \in Risks, n \in 1..MaxSlots }

GenerateTable ==
    /\ ~call.done
    /\ call' = [call EXCEPT !.table = generateMultipliers(call.riskLevel, call.slots),
                             !.curve = curveTable(call.riskLevel, call.slots),
                             !.done = TRUE]
    /\ UNCHANGED gameVars

TableSpec == TableInit /\ [][GenerateTable]_vars

(* generatePegs() and generateSlots(rows + 1) for a canvas and a row count *)
MaxRows == 16
LayoutWidths == {240000, 300000, 480000}
LayoutHeights == {160000, 270000}

LayoutInit ==
    /\ Constructed
    /\ call \in { [width |-> w, height |-> h, rows |-> n, pegs |-> << >>,
                    slots |-> << >>, done |-> FALSE] :
                    w \in LayoutWidths, h \in LayoutHeights, n \in 2..MaxRows }

GenerateLayout ==
    /\ ~call.done
    /\ call' = [call EXCEPT
                  !.pegs = generatePegs(call.width, call.height, call.rows),
                  !.slots = generateSlots(call.width, call.height, call.rows + 1),
                  !.done = TRUE]
    /\ UNCHANGED gameVars

LayoutSpec == LayoutInit /\ [][GenerateLayout]_vars

(* Two runs of one ball on the same board, given the same random draws and *)
(* the same ticks of equal deltaTime: left and right are the ball of each  *)
(* run, index is the slot the 10 s timer of dropBall draws.  When its      *)
(* timer runs is not part of what the runs are given.                      *)
MaxTicks == 6

ReplayInit ==
    /\ Constructed
    /\ call \in { [left |-> b, right |-> b, tick |-> 0, index |-> i,
                    firedLeft |-> FALSE, firedRight |-> FALSE] :
                    b \in { [createBall(canvas.width \div 2 + draw[1], DropY)
                               EXCEPT !.vx = draw[2], !.vy = DropVy] :
                             draw \in DropDraws },
                    i \in RandomSlots }

(* updateBall(ball, deltaTime) in both runs: equal balls meet equal draws *)
ReplayTick ==
    /\ call.tick < MaxTicks
    /\ \E l \in updateBall(call.left, TicksPerFrame, call.tick % PathSample) :
       \E r \in updateBall(call.right, TicksPerFrame, call.tick % PathSample) :
         /\ call.left = call.right => l = r
         /\ call' = [call EXCEPT !.left = l, !.right = r, !.tick = @ + 1]
    /\ UNCHANGED gameVars

(* the 10 s timer of dropBall in the left run *)
ReplayTimeoutLeft ==
    /\ ~call.firedLeft
    /\ call' = [call EXCEPT !.left = TimedOut(call.left, call.index),
                             !.firedLeft = TRUE]
    /\ UNCHANGED gameVars

(* the 10 s timer of dropBall in the right run *)
ReplayTimeoutRight ==
    /\ ~call.firedRight
    /\ call' = [call EXCEPT !.right = TimedOut(call.right, call.index),
                             !.firedRight = TRUE]
    /\ UNCHANGED gameVars

ReplayNext == ReplayTick \/ ReplayTimeoutLeft \/ ReplayTimeoutRight

ReplaySpec == ReplayInit /\ [][ReplayNext]_vars

(***************************************************************************)
(* The game of scripts/game-logic.js with the PhysicsEngine of             *)
(* unnamed/part_000.  Lengths in 1/1000 px, money in cents, multipliers in *)
(* tenths.                                                                 *)
(***************************************************************************)
MaxDraftBalls == 2
MaxCredits == 2

DraftGravity == 850
DraftRestitution == 620
DraftBallRadius == 5000
DraftPegRadius == 3500
DraftPegRows == 16
DraftPegStartY == 40000
DraftDropY == 20000
DraftSlotMargin == 30000
DraftSlots == 16
DraftCorrection == 700
DraftBalance == 100000
DraftBet == 1000

(* the canvas as resizeCanvas leaves it *)
DraftCanvas == [width |-> 800000, height |-> 600000]

(* Draws of << Math.random() * 30 - 15, Math.random() * 2 - 1 >> in dropBall *)
DraftDraws == { << -7000, 300 >>, << 4000, -600 >> }

(* generatePegs(rows): the pegs of one row *)
DraftPegRow(rowCount, row) ==
    LET verticalSpacing == RoundDiv(DraftCanvas.height, rowCount + 4)
        baseSpacing == RoundDiv(DraftCanvas.width * 100, rowCount * 68)
        count == DraftCanvas.width \div (baseSpacing - row * 800)
        offset == IF row % 2 = 0 THEN 0 ELSE baseSpacing \div 2
    IN  [i \in 1..count |->
            [x |-> offset + RoundDiv((i - 1) * DraftCanvas.width * 2, 2 * count - 1),
             y |-> DraftPegStartY + row * verticalSpacing,
             radius |-> DraftPegRadius]]

(* the body of pegs.forEach in updateBall for one peg *)
DraftCollide(ball, peg) ==
    IF IsNaN(ball.x) \/ IsNaN(ball.y) THEN ball
    ELSE
    LET dx == ball.x - peg.x
        dy == ball.y - peg.y
        minDistance == DraftBallRadius + peg.radius
    IN  IF Abs(dx) >= minDistance \/ Abs(dy) >= minDistance
           \/ dx * dx + dy * dy >= minDistance * minDistance
        THEN ball
        ELSE
        LET distance == Sqrt(dx * dx + dy * dy)
            nx == IF distance = 0 THEN NaN ELSE RoundDiv(dx * SCALE, distance)
            ny == IF distance = 0 THEN NaN ELSE RoundDiv(dy * SCALE, distance)
            penetration == minDistance - distance
            speed == IF IsNaN(ball.vx) \/ IsNaN(ball.vy) THEN NaN
                     ELSE Sqrt(ball.vx * ball.vx + ball.vy * ball.vy)
        IN  [ball EXCEPT
               !.x = Add(ball.x, Scaled(Scaled(nx, penetration), DraftCorrection)),
               !.y = Add(ball.y, Scaled(Scaled(ny, penetration), DraftCorrection)),
               !.vx = Scaled(Scaled(nx, speed), DraftRestitution),
               !.vy = Scaled(Scaled(ny, speed), DraftRestitution)]

(* pegs.forEach over the pegs of one row, from peg n on; no peg changes a  *)
(* ball whose position is not a number                                     *)
RECURSIVE DraftCollideRow(_, _, _)
DraftCollideRow(ball, pegList, n) ==
    IF n > Len(pegList) \/ IsNaN(ball.x) THEN ball
    ELSE DraftCollideRow(DraftCollide(ball, pegList[n]), pegList, n + 1)

(* pegs.forEach: the rows in the order generatePegs has pushed them *)
RECURSIVE DraftCollideAll(_, _)
DraftCollideAll(ball, row) ==
    IF row >= DraftPegRows \/ IsNaN(ball.x) THEN ball
    ELSE DraftCollideAll(DraftCollideRow(ball, DraftPegRow(DraftPegRows, row), 1),
                         row + 1)

(* PhysicsEngine.updateBall(ball) of unnamed/part_000 *)
DraftUpdateBall(ball) ==
    IF ball.landed THEN ball
    ELSE LET vy1 == Add(ball.vy, DraftGravity)
         IN  DraftCollideAll([ball EXCEPT !.vy = vy1,
                                          !.x = Add(ball.x, ball.vx),
                                          !.y = Add(ball.y, vy1)],
                             0)

(* getMultiplierValue(slotIndex): the multiplier of the slot in the table   *)
(* of the high tier, not a number for an index outside of it               *)
DraftMultiplierValue(slotIndex) ==
    LET table == << 10000, 1800, 2600, 910, 480, 220, 20, 20,
                    20, 20, 240, 440, 940, 2680, 6300, 0 >>
    IN  IF slotIndex >= 0 /\ slotIndex < Len(table) THEN table[slotIndex + 1] ELSE NaN

(* calculateMultiplier(x) *)
DraftCalculateMultiplier(x) ==
    IF IsNaN(x) THEN NaN
    ELSE DraftMultiplierValue(x \div RoundDiv(DraftCanvas.width, DraftSlots))

(* checkSlotCollision(ball) on the game g = [balance, ball] *)
DraftCheckSlotCollision(g) ==
    IF Gt(g.ball.y, DraftCanvas.height - DraftSlotMargin)
    THEN [balance |-> Add(g.balance,
                          Scaled(Mul(DraftBet, DraftCalculateMultiplier(g.ball.x)), 100)),
          ball |-> [g.ball EXCEPT !.landed = TRUE, !.credits = @ + 1]]
    ELSE g

(* the forEach of animate over physics.balls, from ball n on *)
RECURSIVE DraftAnimate(_, _)
DraftAnimate(g, n) ==
    IF n > Len(g.balls) THEN g
    ELSE LET one == DraftCheckSlotCollision(
                        [balance |-> g.balance, ball |-> DraftUpdateBall(g.balls[n])])
         IN  DraftAnimate([g EXCEPT !.balance = one.balance, !.balls[n] = one.ball],
                          n + 1)

(* bound of the model: no ball has been credited MaxCredits times *)
CreditRoom == \A n \in 1..Len(call.balls) : call.balls[n].credits < MaxCredits

DraftInit ==
    /\ Constructed
    /\ call = [balance |-> DraftBalance, balls |-> << >>, chains |-> 0]

(* dropBall(), whose animate() call runs one pass at once and requests the *)
(* next animation frame                                                    *)
DraftDropBall ==
    /\ Len(call.balls) < MaxDraftBalls
    /\ CreditRoom
    /\ IF Lt(call.balance, DraftBet)
       THEN UNCHANGED call
       ELSE \E draw \in DraftDraws :
              LET ball == [x |-> DraftCanvas.width \div 2 + draw[1], y |-> DraftDropY,
                           vx |-> draw[2], vy |-> 0, landed |-> FALSE, credits |-> 0]
                  g == [call EXCEPT !.balance = Sub(call.balance, DraftBet),
                                     !.balls = Append(call.balls, ball)]
              IN  call' = [DraftAnimate(g, 1) EXCEPT !.chains = @ + 1]
    /\ UNCHANGED gameVars

(* animate() as the callback of requestAnimationFrame *)
DraftFrame ==
    /\ call.chains > 0
    /\ CreditRoom
    /\ call' = DraftAnimate(call, 1)
    /\ UNCHANGED gameVars

DraftNext == DraftDropBall \/ DraftFrame

DraftSpec == DraftInit /\ [][DraftNext]_vars

(* setTimeout callbacks are run once they are due: the 2 s and the 10 s     *)
(* timers of dropBall fire.  Nothing is assumed of animation frames, which *)
(* a browser stops requesting for a hidden page.                           *)
LiveSpec ==
    /\ Init /\ [][Next]_vars
    /\ WF_vars(EnableDrop) /\ WF_vars(DropTimeout)

(***************************************************************************)
(* The lifecycle of a ball.                                                *)
(***************************************************************************)
Landed(ball) == ball.inSlot

Discarded(ball) == ball.sleeping \/ isOutOfBounds(ball)

Active(ball) == ~ball.inSlot /\ ~ball.sleeping /\ ~isOutOfBounds(ball)

TimerPending(b) == \E n \in 1..Len(timers) : timers[n] = b

Iterated(b) == \E n \in 1..Len(physBalls) : physBalls[n] = b

(* x in [slot.x, slot.x + slot.width) and y below the slot's threshold *)
InHalfOpenSpan(ball, slot) ==
    /\ ~IsNaN(ball.x) /\ ball.x >= slot.x /\ ball.x < slot.x + slot.width
    /\ Gt(ball.y, slot.y)

(***************************************************************************)
(* Properties.                                                             *)
(***************************************************************************)
(* C1: handleWin credits the balance for a dropped ball at most once, and  *)
(* exactly once as soon as the ball's 10 s timer has fired, whatever       *)
(* frames, landings, discards, resizes, risk and row-count changes have    *)
(* happened in between.                                                    *)
C1_CreditedOnce ==
    /\ Len(credits) = Len(balls)
    /\ \A b \in 1..Len(balls) :
         /\ credits[b] <= 1
         /\ ~TimerPending(b) => credits[b] = 1

(* a ball that physics discarded and that was then credited, once *)
C1_Witness ==
    \E b \in 1..Len(balls) :
        ~TimerPending(b) /\ credits[b] = 1 /\ Discarded(balls[b])

(* C2: every ball created by dropBall eventually is in a slot with a slot  *)
(* index recorded, or discarded, provided timers and frames keep firing;   *)
(* also a ball that physics never advanced.                                *)
C2_EveryBallTerminates ==
    \A b \in 1..MaxBalls :
        (Len(balls) >= b) ~>
            (Len(balls) >= b /\ \/ (balls[b].inSlot /\ balls[b].slotIndex >= 0)
                                \/ Discarded(balls[b]))

(* a ball that no update ever advanced, put in a slot by its timer *)
C2_Witness ==
    \E b \in 1..Len(balls) :
        /\ balls[b].inSlot /\ balls[b].slotIndex >= 0
        /\ balls[b].pathLen = 0 /\ balls[b].y = DropY /\ ~Iterated(b)

(* C3: no ball is in two lifecycle states at once: a ball in a slot is     *)
(* neither asleep nor out of bounds.                                       *)
C3_OneLifecycleState ==
    \A b \in 1..Len(balls) : ~(Landed(balls[b]) /\ Discarded(balls[b]))

(* C4: landed and discarded are absorbing: a ball in a slot stays in a     *)
(* slot, and a discarded ball stays discarded and never gets in a slot.    *)
C4_TerminalAbsorbing ==
    [][\A b \in 1..Len(balls) :
         /\ Landed(balls[b]) => Landed(balls[b])'
         /\ (Discarded(balls[b]) /\ ~Landed(balls[b]))
                => (Discarded(balls[b])' /\ ~Landed(balls[b])')]_vars

(* C5: once a ball is in a slot, no step changes its slot index, its       *)
(* position or its velocity, and it stays in the slot.                     *)
C5_LandedFrozen ==
    [][\A b \in 1..Len(balls) :
         balls[b].inSlot =>
            /\ balls'[b].inSlot
            /\ balls'[b].slotIndex = balls[b].slotIndex
            /\ balls'[b].x = balls[b].x /\ balls'[b].y = balls[b].y
            /\ balls'[b].vx = balls[b].vx /\ balls'[b].vy = balls[b].vy]_vars

(* a ball that checkSlotEntry landed, still iterated by update, after its  *)
(* timer has fired                                                         *)
C5_Witness ==
    \E b \in 1..Len(balls) :
        /\ balls[b].inSlot /\ balls[b].pathLen > 0
        /\ balls[b].vx = 0 /\ balls[b].vy = 0
        /\ Iterated(b) /\ ~TimerPending(b)

(* C6: a ball that an update has just moved, and that is then below a      *)
(* slot's threshold with its x in [slot.x, slot.x + slot.width), is in     *)
(* that slot at the end of the update.                                     *)
C6_LandsInSameTick ==
    [][\A b \in 1..Len(balls) :
         (~balls[b].inSlot /\ balls'[b].y # balls[b].y) =>
            \A i \in 1..Len(physSlots') :
                InHalfOpenSpan(balls'[b], physSlots'[i]) =>
                    (balls'[b].inSlot /\ balls'[b].slotIndex = i - 1)]_vars

(* C7: the list that update iterates contains every ball of                *)
(* gameState.balls that is not terminal.                                   *)
C7_EveryActiveBallIterated ==
    \A b \in 1..Len(balls) : Active(balls[b]) => Iterated(b)

(* C8: at most one gameLoop callback is requested for the next frame.      *)
C8_OneUpdatePerFrame == rafChains <= 1

C10_SlotsMatchRows ==
    Len(slots) = Len(multipliers) /\ Len(slots) = rows + 1

(* the board after a row-count change *)
C10_Witness ==
    rows # InitialRows /\ Len(slots) = rows + 1 /\ Len(multipliers) = rows + 1

(* the cell and the position in it of every entry of the spatial grid *)
GridEntries ==
    UNION { { << k, i >> : i \in 1..Len(grid[k]) } : k \in DOMAIN grid }

(* C11: in every state that a tick or a handler starts from, the pegs and  *)
(* slots of the physics engine are those of the game, generated for the    *)
(* current canvas and row count, and the spatial grid holds exactly these  *)
(* pegs: each one once, in the cell of its position, and nothing else.     *)
C11_LayoutRegeneratedTogether ==
    /\ pegs = generatePegs(canvas.width, canvas.height, rows)
    /\ slots = generateSlots(canvas.width, canvas.height, rows + 1)
    /\ physPegs = pegs /\ physSlots = slots
    /\ \A n \in 1..Len(pegs) :
         Cardinality({ e \in GridEntries : grid[e[1]][e[2]] = pegs[n] }) = 1
    /\ \A e \in GridEntries :
         /\ \E n \in 1..Len(pegs) : pegs[n] = grid[e[1]][e[2]]
         /\ e[1] = getCellKey(grid[e[1]][e[2]].x, grid[e[1]][e[2]].y)

(* the resize handler has just rebuilt the board under a ball in flight *)
C11_Witness ==
    /\ aliased /\ events > 0 /\ ~resizeTimer
    /\ canvas.width = Viewports[viewport].cw
    /\ \E b \in 1..Len(balls) : Active(balls[b])

(* C12: a resize handler that finds a board without width or height        *)
(* rejects it: rows, pegs, slots, multipliers and the spatial grid stay    *)
(* those of the previous layout.                                           *)
C12_InvalidBoardRejected ==
    [][(/\ resizeTimer /\ ~resizeTimer'
        /\ (AllViewports[viewport].cw <= 0 \/ AllViewports[viewport].ch <= 0))
          => /\ rows' = rows /\ pegs' = pegs /\ slots' = slots
             /\ multipliers' = multipliers /\ grid' = grid]_vars

(* C13: handleCollisions called for a ball whose center is a peg's center   *)
(* leaves the ball with numbers for its position and its velocity.         *)
C13_CenteredCollisionDefined ==
    (/\ call.done
     /\ \E n \in 1..Len(pegs) : pegs[n].x = call.from.x /\ pegs[n].y = call.from.y)
        => /\ ~IsNaN(call.ball.x) /\ ~IsNaN(call.ball.y)
           /\ ~IsNaN(call.ball.vx) /\ ~IsNaN(call.ball.vy)

(* dx * dx + dy * dy <= r * r, computed on the thousands and the rest of  *)
(* each number so that no product leaves the integers of the checker       *)
WithinDistance(dx, dy, r) ==
    LET hx == Abs(dx) \div SCALE  lx == Abs(dx) % SCALE
        hy == Abs(dy) \div SCALE  ly == Abs(dy) % SCALE
        hr == r \div SCALE        lr == r % SCALE
        A == hx * hx + hy * hy - hr * hr
        B == 2 * (hx * lx + hy * ly - hr * lr)
        C == lx * lx + ly * ly - lr * lr
    IN  IF A >= SCALE THEN FALSE
        ELSE IF A <= -SCALE THEN TRUE
        ELSE A * SCALE * SCALE + B * SCALE + C <= 0

(* C14: every peg added to the grid whose center is within the Euclidean   *)
(* distance radius of the query point is in the list getObjectsNear        *)
(* returns, whatever the signs of the coordinates and wherever they lie    *)
(* in their cells.                                                         *)
C14_NoFalseNegatives ==
    call.done =>
        \A n \in 1..Len(call.pegs) :
            WithinDistance(call.pegs[n].x - call.x, call.pegs[n].y - call.y,
                           call.radius)
                => \E m \in 1..Len(call.near) : call.near[m] = call.pegs[n]

(* a peg with a negative coordinate in reach of a query point on a cell    *)
(* boundary, in another cell than the query point, has been returned       *)
C14_Witness ==
    /\ call.done
    /\ call.x % CELL_SIZE = 0
    /\ \E n \in 1..Len(call.pegs) :
         /\ call.pegs[n].x < 0
         /\ getCellKey(call.pegs[n].x, call.pegs[n].y) # getCellKey(call.x, call.y)
         /\ WithinDistance(call.pegs[n].x - call.x, call.pegs[n].y - call.y,
                           call.radius)
         /\ \E m \in 1..Len(call.near) : call.near[m] = call.pegs[n]

(* C15: generateMultipliers('high', 16) returns the sequence 1000, 180,    *)
(* 260, 91, 48, 22, 2, 2, 2, 2, 24, 44, 94, 268, 630, 0 (here in tenths).  *)
C15_HighSixteenIsLiteral ==
    (call.done /\ call.riskLevel = "high" /\ call.slots = 16)
        => call.table = << 10000, 1800, 2600, 910, 480, 220, 20, 20,
                           20, 20, 240, 440, 940, 2680, 6300, 0 >>

(* C16: for every risk tier and every slot count, generateMultipliers      *)
(* returns exactly slots numbers, none negative, and the table reads the   *)
(* same from both ends.                                                    *)
C16_TableSymmetric ==
    call.done =>
        /\ Len(call.table) = call.slots
        /\ \A j \in 1..Len(call.table) :
             /\ ~IsNaN(call.table[j]) /\ call.table[j] >= 0
             /\ call.table[j] = call.table[call.slots + 1 - j]

(* C17: for the high tier and every slot count the table holds 1000 at the *)
(* indices 0 and slots-1, 130 at the indices 1 and slots-2 that are not    *)
(* among the former, and 26 at the indices 2 and slots-3 that are not      *)
(* among the former four: where the index pairs coincide the outer         *)
(* override wins.                                                          *)
C17_HighOverridesByPrecedence ==
    (call.done /\ call.riskLevel = "high") =>
        \A i \in 0..(call.slots - 1) :
            LET outer == i = 0 \/ i = call.slots - 1
                next == i = 1 \/ i = call.slots - 2
                third == i = 2 \/ i = call.slots - 3
            IN  /\ outer => call.table[i + 1] = 10000
                /\ (next /\ ~outer) => call.table[i + 1] = 1300
                /\ (third /\ ~next /\ ~outer) => call.table[i + 1] = 260

(* a high-tier table of four slots, where index 2 is both slots-2 and 2 *)
C17_Witness ==
    /\ call.done /\ call.riskLevel = "high" /\ call.slots = 4
    /\ call.table = << 10000, 1300, 1300, 10000 >>

(* C17 as stated: 1000 at the indices 0 and slots-1, 130 at 1 and slots-2, *)
(* 26 at 2 and slots-3, for every slot count.                              *)
C17_HighOverridesEverywhere ==
    (call.done /\ call.riskLevel = "high") =>
        \A i \in 0..(call.slots - 1) :
            /\ (i = 0 \/ i = call.slots - 1) => call.table[i + 1] = 10000
            /\ (i = 1 \/ i = call.slots - 2) => call.table[i + 1] = 1300
            /\ (i = 2 \/ i = call.slots - 3) => call.table[i + 1] = 260

(* C18: for every risk tier and every slot count of at least 3, the values *)
(* of the distribution formula after rounding, no override applied, do not *)
(* increase from index 0 to the index floor(slots / 2).                    *)
C18_CurveFallsToCenter ==
    (call.done /\ call.slots >= 3) =>
        \A j \in 1..(call.slots \div 2) : call.curve[j] >= call.curve[j + 1]

(* a table whose values from the edge to the center pass through the three *)
(* rounding bands                                                          *)
C18_Witness ==
    /\ call.done /\ call.slots >= 3
    /\ \E j, l, m \in 1..(call.slots \div 2 + 1) :
         /\ j < l /\ l < m
         /\ call.curve[j] > 100
         /\ call.curve[l] > 20 /\ call.curve[l] <= 100
         /\ call.curve[m] <= 20 /\ call.curve[m] > 0

(* C19: generateSlots(rows + 1) yields rows + 1 slots whose spans from x   *)
(* to x + width start at 0, follow one another with neither gap nor        *)
(* overlap and end at the canvas width.                                    *)
C19_SlotsPartitionWidth ==
    call.done =>
        /\ Len(call.slots) = call.rows + 1
        /\ call.slots[1].x = 0
        /\ \A j \in 1..Len(call.slots) : call.slots[j].width > 0
        /\ \A j \in 1..(Len(call.slots) - 1) :
             call.slots[j].x + call.slots[j].width = call.slots[j + 1].x
        /\ call.slots[Len(call.slots)].x + call.slots[Len(call.slots)].width
             = call.width

(* the peg of row r (from 0) and column c (from 0) in the list of pegs *)
RowPeg(ps, r, c) == ps[(r * (r + 1)) \div 2 + c + 1]

(* C20: row r holds r + 1 pegs, every row is its own mirror image about the *)
(* vertical center line of the canvas, and no peg of a row stands directly  *)
(* below a peg of the row before it.                                        *)
C20_TriangularLattice ==
    call.done =>
        /\ Len(call.pegs) = (call.rows * (call.rows + 1)) \div 2
        /\ \A r \in 0..(call.rows - 1) : \A c \in 0..r :
             /\ RowPeg(call.pegs, r, c).x + RowPeg(call.pegs, r, r - c).x = call.width
             /\ r > 0 => \A d \in 0..(r - 1) :
                            RowPeg(call.pegs, r - 1, d).x # RowPeg(call.pegs, r, c).x

(* C21: after handleCollisions an active ball that has a horizontal         *)
(* position lies between ball.radius and the width of the canvas, over     *)
(* which the slots are laid out, less ball.radius.                         *)
C21_BallWithinBoard ==
    (call.done /\ Active(call.ball) /\ ~IsNaN(call.ball.x))
        => /\ call.ball.x >= BALL_RADIUS
           /\ call.ball.x <= canvas.width - BALL_RADIUS

(* C22: the trail of a ball stays below a cap, here the length MaxPath up  *)
(* to which the model follows a trail, however many ticks of update the    *)
(* ball is active for.                                                     *)
C22_PathCapped ==
    \A b \in 1..Len(balls) : Active(balls[b]) => balls[b].pathLen < MaxPath

(* C23: a ball that has landed and been paid out by handleWin, or has been *)
(* discarded, is eventually in neither gameState.balls nor the balls of    *)
(* the physics engine.                                                     *)
C23_ConsumedBallsRemoved ==
    \A b \in 1..MaxBalls :
        (/\ b <= Len(balls)
         /\ \/ Landed(balls[b]) /\ credits[b] > 0
            \/ Discarded(balls[b]))
            ~> (b > Len(balls) /\ ~Iterated(b))

(* C24: two runs given the same random draws and the same dropBall and     *)
(* tick operations on the same board end with the same slot index for the  *)
(* ball.                                                                   *)
C24_SameDrawsSameSlot ==
    (call.firedLeft /\ call.firedRight)
        => call.left.slotIndex = call.right.slotIndex

(* C25: in scripts/game-logic.js the payout of a ball is added to the      *)
(* balance once: no animate frame credits a ball again that                *)
(* checkSlotCollision has marked landed.                                   *)
C25_DraftCreditedOnce ==
    \A n \in 1..Len(call.balls) : call.balls[n].credits <= 1

(* C26: the amount handleWin adds for a ball is the bet that dropBall took *)
(* from the balance for it, times the multiplier of its slot.  Stated for  *)
(* the first ball of a game: before its payout the bet taken for it is     *)
(* InitialBalance - balance.                                               *)
C26_PayoutOfDroppedBet ==
    [][(Len(balls) = 1 /\ credits[1] = 0 /\ credits'[1] = 1)
          => balance' = balance
                + RoundDiv((InitialBalance - balance)
                              * multipliers[balls'[1].slotIndex + 1], 10)]_vars

(* C27: whenever handleWin pays a ball out, the ball's slotIndex is an     *)
(* index of gameState.multipliers and the balance is a number afterwards.  *)
C27_PayoutIndexInRange ==
    [][\A b \in 1..Len(balls) :
         credits'[b] > credits[b]
            => /\ balls'[b].slotIndex >= 0
               /\ balls'[b].slotIndex < Len(multipliers)
               /\ ~IsNaN(balance')]_vars

C29_BetPositive ==
    ~IsNaN(bet) /\ bet > 0

(* C30: while the balance is less than the bet no step creates a ball, adds *)
(* a timer or lowers the balance, so a click on the drop button is without *)
(* effect; and a step that creates a ball creates exactly one, with its    *)
(* timer, in a state whose balance covers the bet, and takes exactly the   *)
(* bet from the balance.                                                   *)
C30_DropNeedsBalance ==
    [][/\ Lt(balance, bet)
            => /\ Len(balls') = Len(balls)
               /\ Len(physBalls') <= Len(physBalls)
               /\ Len(timers') <= Len(timers)
               /\ ~Lt(balance', balance)
       /\ Len(balls') > Len(balls)
            => /\ ~Lt(balance, bet)
               /\ balance' = Sub(balance, bet)
               /\ balls' = Append(balls, balls'[Len(balls')])
               /\ timers' = Append(timers, Len(balls'))]_vars

(* a ball was dropped for the whole balance, and the drop button is enabled *)
(* again while the balance is less than the bet                            *)
C30_Witness ==
    /\ Len(balls) = 1
    /\ timers = << 1 >>
    /\ ~dropDisabled
    /\ Lt(balance, bet)

=============================================================================
